---- MODULE Spec2Model ----
(***************************************************************************)
(* RADIX: the nearest-neighbour tracker (radix/core/tracker.py), the data  *)
(* normalizer (radix/core/normalizer.py) and the orchestrator loop with    *)
(* its query and WebSocket handlers (radix/api/main.py), as state machines.*)
(*                                                                         *)
(* Time is counted in whole seconds.  ENU coordinates are integers, so the *)
(* comparison `distance < best_distance` of the code is decided exactly on *)
(* the squared distances.  An Optional list that is None (or empty, which  *)
(* Python also treats as false) is the empty tuple <<>>.                   *)
(***************************************************************************)
EXTENDS Integers, Sequences, FiniteSets, TLC

\* ------------------------------------------------------------- bounds
\* At most MaxUpdates calls of update are explored for the tracker on its own.
MaxUpdates == 4
\* At most MaxTicks iterations of simulation_loop are explored.
MaxTicks == 4
\* One target followed for a long time: at most MaxLongUpdates calls of
\* update, of which at most MaxGaps carry no detection.
MaxLongUpdates == 53
MaxGaps == 1
\* The loop fed full frames: at most MaxRingTicks iterations are explored.
MaxRingTicks == 145
\* The sequence extractor: a track receives at most MaxSequenceUpdates
\* detections, and is cut into windows of 1 .. MaxWindow detections taken
\* every 1 .. MaxStride.
MaxSequenceUpdates == 4
MaxWindow == 3
MaxStride == 2
\* At most MaxDatasets datasets are created, over at most MaxDatasetTicks
\* iterations of simulation_loop.
MaxDatasets == 2
MaxDatasetTicks == 2
\* The graph extractor: the tracker is fed at most MaxGraphUpdates batches.
MaxGraphUpdates == 2
\* GET /api/detections is asked for 0 .. MaxLimit detections.
MaxLimit == 3
\* At most MaxSubscribers WebSocket clients ever connect.
MaxSubscribers == 2

\* ---------------------------------------------------- program constants
\* SimpleTracker.__init__ defaults.
max_association_distance == 100
max_coast_time == 5
\* _update_track: confirmation threshold and retained detections.
ConfirmThreshold == 3
MaxTrackDetections == 50
\* simulation_loop: the detections kept in RADIXState.all_detections.
RingCapacity == 1000
\* extract_graph_dataset: tracks closer than this are connected.
ProximityThreshold == 1000
\* extract_sequence_dataset: the defaults of window_size and stride.
DefaultWindowSize == 10
DefaultStride == 1

TENTATIVE == "TENTATIVE"
CONFIRMED == "CONFIRMED"
COASTING == "COASTING"
LOST == "LOST"
TrackState == {TENTATIVE, CONFIRMED, COASTING, LOST}

VARIABLES
    tracks,             \* SimpleTracker.tracks: the dict, in insertion order
    next_track_id,      \* SimpleTracker.next_track_id
    current_time,       \* update's local current_time, as of the last call
    updated_tracks,     \* update's local updated_tracks, as of the last call
    clock,              \* the last reading of datetime.utcnow()
    lifetime,           \* history: track_id -> detections received so far
    created,            \* history: every track_id handed out, in order
    missed,             \* history: ids of the tracks that went an update without a detection
    was_coasting,       \* history: ids of the tracks that were COASTING when the last update began
    updates,            \* history: number of update calls so far
    simulation_running, \* RADIXState.simulation_running
    all_detections,     \* RADIXState.all_detections
    total_detections,   \* RADIXState.total_detections
    data_rate_hz,       \* RADIXState.data_rate_hz, as <<detections, seconds>>
    loop,               \* simulation_loop: its position and its locals
    arrived,            \* history: every detection ever appended to all_detections
    active_websockets,  \* RADIXState.active_websockets
    connections,        \* each WebSocket: "new", "open", "closing" (the peer has gone), "closed"
    broadcast,          \* history: the subscribers at the start of the last broadcast,
                        \* those a send to whom was started, in order, and those
                        \* a send to whom succeeded or failed
    normalizing,        \* a call of the DataNormalizer: its arguments and what came of it
    datasets,           \* DataExtractor.datasets: the dict, in insertion order
    response            \* the last call of the extractor, of a dataset handler or,
                        \* where update is followed call by call, of the tracker:
                        \* its arguments and what it returned

tracker_vars == <<tracks, next_track_id, current_time, updated_tracks,
                  lifetime, created, missed, was_coasting, updates>>
socket_vars == <<active_websockets, connections, broadcast>>
extractor_vars == <<datasets, response>>
loop_vars == <<simulation_running, all_detections, total_detections,
               data_rate_hz, loop, arrived, socket_vars, extractor_vars>>
pipeline_vars == <<simulation_running, all_detections, total_detections,
                   data_rate_hz, loop, arrived, socket_vars, normalizing,
                   extractor_vars>>
vars == <<tracker_vars, clock, pipeline_vars>>

\* ------------------------------------------------------------- inputs
\* The WebSocket objects that websocket_endpoint is ever called with.
Websockets == 1 .. MaxSubscribers

\* Timestamps and wall-clock readings: the epoch, exactly max_coast_time
\* after it, and one second later still.
Times == {0, max_coast_time, max_coast_time + 1}

Velocity == <<-7, -7, 0>>

\* Detections apart from their timestamp.  NearDet and FarDet lie exactly
\* max_association_distance apart; MidDet lies within it of both and has no
\* velocity_enu; BareDet is what the generic normalizer yields, with neither
\* position_enu nor velocity_enu.
NearDet == [sensor_id |-> "RADAR_A", position_enu |-> <<0, 0, 0>>, velocity_enu |-> Velocity]
FarDet == [sensor_id |-> "RADAR_A", position_enu |-> <<100, 0, 0>>, velocity_enu |-> Velocity]
MidDet == [sensor_id |-> "RADAR_A", position_enu |-> <<60, 0, 0>>, velocity_enu |-> <<>>]

BareDet == [sensor_id |-> "RADAR_B", position_enu |-> <<>>, velocity_enu |-> <<>>]

Detection(t, s) ==
    [timestamp |-> t, sensor_id |-> s.sensor_id,
     position_enu |-> s.position_enu, velocity_enu |-> s.velocity_enu]

\* The non-empty batches stamped t that callers hand to update.
BatchesAt(t) ==
    {<<Detection(t, NearDet)>>, <<Detection(t, FarDet)>>, <<Detection(t, MidDet)>>,
     <<Detection(t, BareDet)>>, <<Detection(t, NearDet), Detection(t, FarDet)>>}

\* The batches one tick of the loop normalizes at time t: the simulators stamp
\* every detection of a frame with the tick's current_time, and the FMCW,
\* pulse-Doppler and AESA handlers always fill position_enu and velocity_enu.
TickBatchesAt(t) ==
    {<<>>, <<Detection(t, NearDet)>>, <<Detection(t, FarDet)>>,
     <<Detection(t, NearDet), Detection(t, FarDet)>>}

\* ------------------------------------------------------------ helpers
Truthy(list) == list # <<>>

\* |p - q|^2, for np.linalg.norm(det_pos - track_pos).
Dist2(p, q) ==
    (p[1] - q[1]) * (p[1] - q[1]) + (p[2] - q[2]) * (p[2] - q[2])
        + (p[3] - q[3]) * (p[3] - q[3])

\* list.remove(x): the list without its first element equal to x.
RECURSIVE Remove(_, _)
Remove(list, x) ==
    IF list = <<>> THEN <<>>
    ELSE IF Head(list) = x THEN Tail(list)
    ELSE <<Head(list)>> \o Remove(Tail(list), x)

\* list[-n:]
LastN(list, n) ==
    IF Len(list) <= n THEN list ELSE SubSeq(list, Len(list) - n + 1, Len(list))

\* list[start:], for any integer start: a negative start counts from the end.
SliceFrom(list, start) ==
    LET n == Len(list)
        first == IF start < 0
                 THEN (IF n + start < 0 THEN 0 ELSE n + start)
                 ELSE (IF start > n THEN n ELSE start)
    IN  SubSeq(list, first + 1, n)

TrackIds(ts) == {ts[i].track_id : i \in DOMAIN ts}

TrackById(ts, id) == ts[CHOOSE i \in DOMAIN ts : ts[i].track_id = id]

\* ------------------------------------------------------------ tracker
\* _create_track: the track seeded by `detection` under id `id`.
SeedStateFromHint(detection) ==
    IF detection.track_state # <<>> THEN detection.track_state[1] ELSE TENTATIVE

\* The track_state _create_track gives a new track.
SeedState(detection) == TENTATIVE

\* _create_track
create_track(detection, id, now) ==
    [track_id |-> id,
     sensor_id |-> detection.sensor_id,
     first_seen |-> now,
     last_updated |-> now,
     state_vector |-> detection.position_enu \o detection.velocity_enu,
     track_state |-> SeedState(detection),
     detections |-> <<detection>>]

StateForCountEarly(n) == IF n >= ConfirmThreshold - 1 THEN CONFIRMED ELSE TENTATIVE
StateForCountLate(n) == IF n > ConfirmThreshold THEN CONFIRMED ELSE TENTATIVE
StateForCountAlways(n) == CONFIRMED
StateForCountCapped(n) ==
    IF n >= ConfirmThreshold /\ n <= MaxTrackDetections THEN CONFIRMED ELSE TENTATIVE

\* The state _update_track gives a track that now holds n detections.
StateForCount(n) == IF n >= ConfirmThreshold THEN CONFIRMED ELSE TENTATIVE

TrimDetectionsOldestKept(list) ==
    IF Len(list) > MaxTrackDetections THEN SubSeq(list, 1, MaxTrackDetections) ELSE list

\* The last statement of _update_track: only the most recent detections stay.
TrimDetections(list) ==
    IF Len(list) > MaxTrackDetections THEN LastN(list, MaxTrackDetections) ELSE list

\* _update_track
update_track(track, detection, now) ==
    LET appended == Append(track.detections, detection) IN
    [track EXCEPT
        !.state_vector =
            IF Truthy(detection.position_enu) /\ Truthy(detection.velocity_enu)
            THEN detection.position_enu \o detection.velocity_enu
            ELSE @,
        !.last_updated = now,
        !.track_state = StateForCount(Len(appended)),
        !.detections = TrimDetections(appended)]

\* The comparison that lets a detection replace the best one so far.
CloserOrEqual(distance2, best2) == distance2 =< best2

\* distance < best_distance
Closer(distance2, best2) == distance2 < best2

\* The inner loop of update: the index in `unassociated` of best_detection
\* (0 for None), scanning from index j on.
RECURSIVE BestDetection(_, _, _, _, _)
BestDetection(track, unassociated, j, best, best2) ==
    IF j > Len(unassociated) THEN best
    ELSE LET detection == unassociated[j] IN
         IF Truthy(detection.position_enu) /\ Truthy(track.state_vector)
         THEN LET distance2 ==
                      Dist2(detection.position_enu, SubSeq(track.state_vector, 1, 3))
              IN  IF Closer(distance2, best2)
                  THEN BestDetection(track, unassociated, j + 1, j, distance2)
                  ELSE BestDetection(track, unassociated, j + 1, best, best2)
         ELSE BestDetection(track, unassociated, j + 1, best, best2)

CoastStateInclusive(track, now) ==
    IF now - track.last_updated <= max_coast_time THEN COASTING ELSE LOST

\* The else branch of update: the state of a track that got no detection.
CoastState(track, now) ==
    IF now - track.last_updated < max_coast_time THEN COASTING ELSE LOST

RemoveNothing(list, x) == list

\* unassociated_detections.remove(best_detection)
RemoveDetection(list, x) == Remove(list, x)

ItemsReversed(ts) == [k \in DOMAIN ts |-> Len(ts) + 1 - k]

\* list(self.tracks.items()): the positions in the dict, in insertion order.
Items(ts) == [k \in DOMAIN ts |-> k]

\* The loop of update over the existing tracks, from the i-th item on.
\* acc = [tracks, unassociated, updated].
RECURSIVE AssociateLoop(_, _, _, _)
AssociateLoop(items, acc, i, now) ==
    IF i > Len(items) THEN acc
    ELSE LET track == acc.tracks[items[i]]
             best == BestDetection(track, acc.unassociated, 1, 0,
                         max_association_distance * max_association_distance)
         IN  IF best # 0
             THEN AssociateLoop(items,
                    [tracks |-> [acc.tracks EXCEPT
                                    ![items[i]] = update_track(track, acc.unassociated[best], now)],
                     unassociated |-> RemoveDetection(acc.unassociated, acc.unassociated[best]),
                     updated |-> acc.updated \cup {track.track_id}],
                    i + 1, now)
             ELSE AssociateLoop(items,
                    [acc EXCEPT !.tracks[items[i]].track_state = CoastState(track, now)],
                    i + 1, now)

SeedsPositionOnly(detection) == Truthy(detection.position_enu)

\* Whether a leftover detection seeds a track.
Seeds(detection) ==
    Truthy(detection.position_enu) /\ Truthy(detection.velocity_enu)

NextIdStuck(id) == id

\* self.next_track_id += 1
NextId(id) == id + 1

\* The second loop of update: new tracks for the leftover detections.
\* acc = [tracks, next].
RECURSIVE CreateLoop(_, _, _, _)
CreateLoop(acc, unassociated, j, now) ==
    IF j > Len(unassociated) THEN acc
    ELSE IF Seeds(unassociated[j])
         THEN CreateLoop(
                [tracks |-> Append(acc.tracks, create_track(unassociated[j], acc.next, now)),
                 next |-> NextId(acc.next)],
                unassociated, j + 1, now)
         ELSE CreateLoop(acc, unassociated, j + 1, now)

KeptAll(track) == TRUE

\* Whether the last statement of update keeps a track.
Kept(track) == track.track_state # LOST

\* The dict comprehension that ends update.
RECURSIVE RemoveLost(_)
RemoveLost(ts) ==
    IF ts = <<>> THEN <<>>
    ELSE IF Kept(Head(ts)) THEN <<Head(ts)>> \o RemoveLost(Tail(ts))
    ELSE RemoveLost(Tail(ts))

\* update's current_time: the first detection's timestamp, or the wall clock.
CurrentTime(detections, now) ==
    IF detections # <<>> THEN detections[1].timestamp ELSE now

\* What SimpleTracker.update(detections) computes, the wall clock reading
\* `now`: current_time, updated_tracks, the tracks before and after the
\* removal of the lost ones, and next_track_id.
UpdateFrom(ts, next_id, detections, now) ==
    LET t == CurrentTime(detections, now)
        assoc == AssociateLoop(Items(ts),
                     [tracks |-> ts, unassociated |-> detections, updated |-> {}],
                     1, t)
        made == CreateLoop([tracks |-> assoc.tracks, next |-> next_id],
                           assoc.unassociated, 1, t)
    IN  [t |-> t, updated |-> assoc.updated, made |-> made.tracks, next |-> made.next,
         kept |-> RemoveLost(made.tracks)]

\* SimpleTracker.update(detections) on this tracker.
UpdateResult(detections, now) == UpdateFrom(tracks, next_track_id, detections, now)

\* SimpleTracker.update(detections): its effect on the tracker.
TrackerUpdate(detections, now) ==
    \E r \in {UpdateResult(detections, now)} :
    LET seeded == SubSeq(r.made, Len(tracks) + 1, Len(r.made))
    IN  /\ tracks' = r.kept
        /\ next_track_id' = r.next
        /\ current_time' = r.t
        /\ updated_tracks' = r.updated
        /\ updates' = updates + 1
        /\ lifetime' =
               [id \in TrackIds(r.kept) |->
                   IF id \in TrackIds(seeded) THEN 1
                   ELSE IF id \in r.updated THEN lifetime[id] + 1
                   ELSE lifetime[id]]
        /\ created' = created \o [k \in DOMAIN seeded |-> seeded[k].track_id]
        /\ missed' = (missed \cup (TrackIds(tracks) \ r.updated)) \cap TrackIds(r.kept)
        /\ was_coasting' = {tracks[i].track_id : i \in {k \in DOMAIN tracks : tracks[k].track_state = COASTING}}

get_active_tracks_unfiltered(ts) == ts

\* get_active_tracks
get_active_tracks(ts) ==
    SelectSeq(ts, LAMBDA track : track.track_state \in {CONFIRMED, COASTING})

\* get_track_by_id: the track, or <<>> for None.
get_track_by_id(ts, id) ==
    IF id \in TrackIds(ts) THEN TrackById(ts, id) ELSE <<>>

\* GET /api/tracks
get_tracks ==
    LET active == get_active_tracks(tracks) IN
    [i \in DOMAIN active |->
        [track_id |-> active[i].track_id,
         sensor_id |-> active[i].sensor_id,
         position |-> SubSeq(active[i].state_vector, 1, 3),
         velocity |-> SubSeq(active[i].state_vector, 4, 6),
         track_state |-> active[i].track_state,
         first_seen |-> active[i].first_seen,
         last_updated |-> active[i].last_updated,
         num_detections |-> Len(active[i].detections)]]

\* --------------------------------------------------------- normalizer
\* A value of the raw_data dict under one key: nothing, a number, the
\* boolean True, or a value of the wrong type (the string "abc").
Absent == [kind |-> "absent", v |-> 0]
Number(v) == [kind |-> "number", v |-> v]
True == [kind |-> "bool", v |-> 1]
IllTyped == [kind |-> "string", v |-> 0]

Has(data, key) == data[key].kind # "absent"
IsNumber(value) == value.kind = "number"
\* The truth value Python gives a raw_data value ("abc" is true, None is not).
IsTrue(value) ==
    \/ value.kind \in {"bool", "string"}
    \/ value.kind = "number" /\ value.v # 0

\* What a call came to: it returned a value (<<>> for None) or raised.
NotCalled == [kind |-> "pending", value |-> <<>>]
Returned(value) == [kind |-> "returned", value |-> <<value>>]
ReturnedNone == [kind |-> "returned", value |-> <<>>]
Raised(exception) == [kind |-> "raised", value |-> <<exception>>]

\* The values of the enum RadarType, and those with an entry in
\* DataNormalizer.normalizers.
RadarType == {"FMCW", "PULSE_DOPPLER", "AESA", "ISAR", "CW"}
Normalizers == {"FMCW", "PULSE_DOPPLER", "AESA"}

\* self.normalizers.get(radar_type) is not None
HasNormalizer(radar_type) == radar_type \in Normalizers

\* 1000 sin and 1000 cos of the angles, in degrees, that the inputs use.
Sin1000(deg) ==
    CASE deg = 0 -> 0 [] deg = 10 -> 174 [] deg = 45 -> 707 [] deg = 90 -> 1000
      [] deg = 95 -> 996 [] deg = 370 -> 174
Cos1000(deg) ==
    CASE deg = 0 -> 1000 [] deg = 10 -> 985 [] deg = 45 -> 707 [] deg = 90 -> 0
      [] deg = 95 -> -87 [] deg = 370 -> 985

\* Spherical to Cartesian (ENU), to whole metres.
ToENU(r, azimuth_deg, elevation_deg) ==
    <<(r * Cos1000(elevation_deg) * Sin1000(azimuth_deg)) \div 1000000,
      (r * Cos1000(elevation_deg) * Cos1000(azimuth_deg)) \div 1000000,
      (r * Sin1000(elevation_deg)) \div 1000>>

\* Optional fields of a normalized record are <<>> for None and <<v>> for v.
Optional(value) == IF IsNumber(value) THEN <<value.v>> ELSE <<>>

\* What pydantic makes of the optional arguments target_id and rcs_dbsm.
OptionalsValid(data) ==
    /\ data.target_id.kind \in {"absent", "number"}
    /\ data.rcs_dbsm.kind \in {"absent", "number"}

\* The track_state argument of the three handlers.
TrackStateHint(radar_type, data) ==
    IF radar_type = "AESA"
    THEN (IF data.snr_db.v > 15 THEN <<CONFIRMED>> ELSE <<TENTATIVE>>)
    ELSE (IF ~IsTrue(data.is_false_alarm) THEN <<TENTATIVE>> ELSE <<>>)

\* _normalize_fmcw, _normalize_pulse_doppler and _normalize_aesa, which differ
\* in track_state and metadata only: statement by statement, the first
\* exception raised or the record returned.
Project(raw, radar_type) ==
    LET data == raw.raw_data IN
    IF ~Has(data, "range_m") THEN Raised("KeyError")
    ELSE IF ~Has(data, "azimuth_deg") THEN Raised("KeyError")
    ELSE IF ~IsNumber(data.azimuth_deg) THEN Raised("TypeError")
    ELSE IF ~Has(data, "elevation_deg") THEN Raised("KeyError")
    ELSE IF ~IsNumber(data.elevation_deg) THEN Raised("TypeError")
    ELSE IF ~IsNumber(data.range_m) THEN Raised("TypeError")
    ELSE IF ~Has(data, "doppler_mps") THEN Raised("KeyError")
    ELSE IF ~IsNumber(data.doppler_mps) THEN Raised("TypeError")
    ELSE IF ~Has(data, "snr_db") THEN Raised("KeyError")
    ELSE IF radar_type = "AESA" /\ ~IsNumber(data.snr_db) THEN Raised("TypeError")
    ELSE IF ~IsNumber(data.snr_db) \/ ~OptionalsValid(data) THEN Raised("ValueError")
    ELSE Returned(
           [timestamp |-> raw.timestamp,
            sensor_id |-> raw.sensor_id,
            target_id |-> Optional(data.target_id),
            range_m |-> data.range_m.v,
            azimuth_deg |-> data.azimuth_deg.v,
            elevation_deg |-> <<data.elevation_deg.v>>,
            doppler_mps |-> data.doppler_mps.v,
            snr_db |-> data.snr_db.v,
            rcs_dbsm |-> Optional(data.rcs_dbsm),
            track_state |-> TrackStateHint(radar_type, data),
            position_enu |-> ToENU(data.range_m.v, data.azimuth_deg.v, data.elevation_deg.v),
            velocity_enu |-> ToENU(data.doppler_mps.v, data.azimuth_deg.v, data.elevation_deg.v),
            radar_type |-> radar_type])

normalize_fmcw(raw) == Project(raw, "FMCW")
normalize_pulse_doppler(raw) == Project(raw, "PULSE_DOPPLER")
normalize_aesa(raw) == Project(raw, "AESA")

GetOrNothing(data, key) == IF Has(data, key) THEN data[key].v ELSE -1

\* data.get(key, 0) where a number is expected.
GetOrZero(data, key) == IF Has(data, key) THEN data[key].v ELSE 0

\* _generic_normalize: pydantic raises a ValidationError, which is a
\* ValueError, on an argument of the wrong type.
generic_normalize(raw) ==
    LET data == raw.raw_data IN
    IF \/ \E key \in {"range_m", "azimuth_deg", "elevation_deg", "doppler_mps", "snr_db"} :
             Has(data, key) /\ ~IsNumber(data[key])
       \/ ~OptionalsValid(data)
    THEN Raised("ValueError")
    ELSE Returned(
           [timestamp |-> raw.timestamp,
            sensor_id |-> raw.sensor_id,
            target_id |-> Optional(data.target_id),
            range_m |-> GetOrZero(data, "range_m"),
            azimuth_deg |-> GetOrZero(data, "azimuth_deg"),
            elevation_deg |-> <<GetOrZero(data, "elevation_deg")>>,
            doppler_mps |-> GetOrZero(data, "doppler_mps"),
            snr_db |-> GetOrZero(data, "snr_db"),
            rcs_dbsm |-> Optional(data.rcs_dbsm),
            track_state |-> <<>>,
            position_enu |-> <<>>,
            velocity_enu |-> <<>>,
            radar_type |-> "UNKNOWN"])

\* The try block of normalize, for a format_type that is a RadarType.
TryBlock(raw) ==
    IF HasNormalizer(raw.format_type)
    THEN CASE raw.format_type = "FMCW" -> normalize_fmcw(raw)
           [] raw.format_type = "PULSE_DOPPLER" -> normalize_pulse_doppler(raw)
           [] raw.format_type = "AESA" -> normalize_aesa(raw)
    ELSE generic_normalize(raw)

\* normalize.  RadarType(format_type) raises ValueError on any other string.
\* `except ValueError` calls _generic_normalize once more, and what that call
\* raises leaves normalize; `except Exception` returns None.
normalize(raw) ==
    LET attempt == IF raw.format_type \in RadarType
                   THEN TryBlock(raw)
                   ELSE Raised("ValueError")
    IN  IF attempt.kind = "returned" THEN attempt
        ELSE IF attempt.value = <<"ValueError">> THEN generic_normalize(raw)
        ELSE ReturnedNone

\* batch_normalize over raw_detections from index i on, `normalized` so far.
RECURSIVE BatchLoop(_, _, _)
BatchLoop(raw_detections, i, normalized) ==
    IF i > Len(raw_detections) THEN Returned(normalized)
    ELSE LET result == normalize(raw_detections[i]) IN
         IF result.kind = "raised" THEN result
         ELSE IF result.value # <<>>
              THEN BatchLoop(raw_detections, i + 1, Append(normalized, result.value[1]))
              ELSE BatchLoop(raw_detections, i + 1, normalized)

batch_normalize(raw_detections) == BatchLoop(raw_detections, 1, <<>>)

\* GET /api/detections?limit=...
get_recent_detections(limit) ==
    LET recent == SliceFrom(all_detections, 0 - limit) IN
    [k \in DOMAIN recent |->
        [timestamp |-> recent[k].timestamp,
         sensor_id |-> recent[k].sensor_id,
         position_enu |-> recent[k].position_enu]]

\* ---------------------------------------------------------- extractor
\* `optional or default`: None and 0 both give the default.
OrDefault(optional, default) ==
    IF optional # <<>> /\ optional[1] # 0 THEN optional[1] ELSE default

\* The row extract_tabular_dataset makes of one detection.  The keys x, y, z
\* are set together, as are vx, vy, vz: xyz and v_xyz hold them, or nothing.
TabularRow(det) ==
    [timestamp |-> det.timestamp,
     sensor_id |-> det.sensor_id,
     target_id |-> OrDefault(det.target_id, -1),
     range_m |-> det.range_m,
     azimuth_deg |-> det.azimuth_deg,
     elevation_deg |-> OrDefault(det.elevation_deg, 0),
     doppler_mps |-> det.doppler_mps,
     snr_db |-> det.snr_db,
     rcs_dbsm |-> OrDefault(det.rcs_dbsm, 0),
     xyz |-> IF Truthy(det.position_enu) THEN SubSeq(det.position_enu, 1, 3) ELSE <<>>,
     v_xyz |-> IF Truthy(det.velocity_enu) THEN SubSeq(det.velocity_enu, 1, 3) ELSE <<>>]

\* extract_tabular_dataset: the rows of the DataFrame.
extract_tabular_dataset(detections) ==
    [k \in DOMAIN detections |-> TabularRow(detections[k])]

\* The row extract_sequence_dataset makes of one detection of a window.
SequenceRow(track, det) ==
    [track_id |-> track.track_id,
     sensor_id |-> det.sensor_id,
     timestamp |-> det.timestamp,
     xyz |-> SubSeq(det.position_enu, 1, 3),
     v_xyz |-> SubSeq(det.velocity_enu, 1, 3),
     range_m |-> det.range_m,
     azimuth_deg |-> det.azimuth_deg,
     elevation_deg |-> OrDefault(det.elevation_deg, 0),
     doppler_mps |-> det.doppler_mps,
     snr_db |-> det.snr_db,
     rcs_dbsm |-> OrDefault(det.rcs_dbsm, 0),
     track_state |-> track.track_state]

\* `for det in window`, from index k on: the rows appended.
RECURSIVE WindowRows(_, _, _)
WindowRows(track, window, k) ==
    IF k > Len(window) THEN <<>>
    ELSE (IF Truthy(window[k].position_enu) /\ Truthy(window[k].velocity_enu)
          THEN <<SequenceRow(track, window[k])>>
          ELSE <<>>) \o WindowRows(track, window, k + 1)

\* `for i in range(0, len(track.detections) - window_size + 1, stride)`,
\* from i on: the rows appended.
RECURSIVE TrackWindows(_, _, _, _)
TrackWindows(track, window_size, stride, i) ==
    IF i >= Len(track.detections) - window_size + 1 THEN <<>>
    ELSE WindowRows(track, SubSeq(track.detections, i + 1, i + window_size), 1)
            \o TrackWindows(track, window_size, stride, i + stride)

\* `for track in tracks`, from index t on: the rows appended.
RECURSIVE SequenceLoop(_, _, _, _)
SequenceLoop(ts, window_size, stride, t) ==
    IF t > Len(ts) THEN <<>>
    ELSE (IF Len(ts[t].detections) < window_size
          THEN <<>>
          ELSE TrackWindows(ts[t], window_size, stride, 0))
            \o SequenceLoop(ts, window_size, stride, t + 1)

\* extract_sequence_dataset: the rows of the DataFrame.
extract_sequence_dataset(ts, window_size, stride) ==
    SequenceLoop(ts, window_size, stride, 1)

\* The largest d in lo .. hi with d * d <= n, by bisection.
RECURSIVE Root(_, _, _)
Root(n, lo, hi) ==
    IF lo >= hi THEN lo
    ELSE LET mid == (lo + hi + 1) \div 2
         IN  IF mid * mid <= n THEN Root(n, mid, hi) ELSE Root(n, lo, mid - 1)

Abs(x) == IF x < 0 THEN 0 - x ELSE x

\* np.linalg.norm(pos_i - pos_j): exact for positions a whole number of
\* metres apart, which is how the tracks of SpecGraph lie.
Norm(p, q) ==
    Root(Dist2(p, q), 0, Abs(p[1] - q[1]) + Abs(p[2] - q[2]) + Abs(p[3] - q[3]))

NearInclusive(distance) == distance <= ProximityThreshold

\* `if distance < 1000`
Near(distance) == distance < ProximityThreshold

\* adjacency[i, j] after the loops, as the fraction <<numerator, denominator>>.
Weight(ts, i, j) ==
    IF /\ Truthy(ts[i].state_vector)
       /\ i # j
       /\ Truthy(ts[j].state_vector)
       /\ Near(Norm(SubSeq(ts[i].state_vector, 1, 3), SubSeq(ts[j].state_vector, 1, 3)))
    THEN <<1, Norm(SubSeq(ts[i].state_vector, 1, 3), SubSeq(ts[j].state_vector, 1, 3)) + 1>>
    ELSE <<0, 1>>

\* The entry w of the matrix satisfies w > 0.
Positive(w) == w[1] > 0

\* node_features, from index i on.
RECURSIVE NodeFeatures(_, _)
NodeFeatures(ts, i) ==
    IF i > Len(ts) THEN <<>>
    ELSE (IF Truthy(ts[i].state_vector)
          THEN <<[track_id |-> ts[i].track_id,
                  xyz |-> SubSeq(ts[i].state_vector, 1, 3),
                  v_xyz |-> SubSeq(ts[i].state_vector, 4, 6),
                  num_detections |-> Len(ts[i].detections),
                  track_state |-> ts[i].track_state]>>
          ELSE <<>>) \o NodeFeatures(ts, i + 1)

\* np.where(adjacency > 0): the index pairs, counted from 0, row by row, from
\* the k-th entry of the matrix on.
RECURSIVE Where(_, _)
Where(adjacency, k) ==
    LET n == Len(adjacency)
        i == (k \div n) + 1
        j == (k % n) + 1
    IN  IF k >= n * n THEN <<>>
        ELSE (IF Positive(adjacency[i][j]) THEN <<(<<i - 1, j - 1>>)>> ELSE <<>>)
                \o Where(adjacency, k + 1)

\* extract_graph_dataset
extract_graph_dataset(ts) ==
    LET adjacency == [i \in DOMAIN ts |-> [j \in DOMAIN ts |-> Weight(ts, i, j)]]
    IN  [nodes |-> NodeFeatures(ts, 1),
         adjacency |-> adjacency,
         edge_index |-> Where(adjacency, 0)]

\* str(n) for n >= 0.
Digit(d) ==
    CASE d = 0 -> "0" [] d = 1 -> "1" [] d = 2 -> "2" [] d = 3 -> "3" [] d = 4 -> "4"
      [] d = 5 -> "5" [] d = 6 -> "6" [] d = 7 -> "7" [] d = 8 -> "8" [] d = 9 -> "9"
RECURSIVE Str(_)
Str(n) == IF n < 10 THEN Digit(n) ELSE Str(n \div 10) \o Digit(n % 10)

DatasetIdFixed(n) == "dataset_0"

\* f"dataset_{len(self.datasets)}"
DatasetId(n) == "dataset_" \o Str(n)

\* min and max of a non-empty list of timestamps.
Min(list) == CHOOSE x \in {list[k] : k \in DOMAIN list} : \A k \in DOMAIN list : x <= list[k]
Max(list) == CHOOSE x \in {list[k] : k \in DOMAIN list} : \A k \in DOMAIN list : x >= list[k]

\* dict[key] = value on a dict of descriptors kept in insertion order.
Put(dict, key, value) ==
    IF \E k \in DOMAIN dict : dict[k].dataset_id = key
    THEN [k \in DOMAIN dict |-> IF dict[k].dataset_id = key THEN value ELSE dict[k]]
    ELSE Append(dict, value)

\* The MLDataset that create_ml_dataset builds at wall-clock time `now`;
\* list(set(...)) of the sensor ids is kept as the set.
MLDataset(registered, name, description, detections, ts, format, now) ==
    LET sensor_ids == {detections[k].sensor_id : k \in DOMAIN detections}
        timestamps == [k \in DOMAIN detections |-> detections[k].timestamp]
    IN  [dataset_id |-> DatasetId(Len(registered)),
         name |-> name,
         description |-> description,
         created_at |-> now,
         sensor_ids |-> sensor_ids,
         start_time |-> IF Truthy(timestamps) THEN Min(timestamps) ELSE now,
         end_time |-> IF Truthy(timestamps) THEN Max(timestamps) ELSE now,
         num_samples |-> Len(detections),
         format |-> format,
         metadata |-> [num_tracks |-> Len(ts), num_sensors |-> Cardinality(sensor_ids)]]

KnownDatasetAlways(registered, dataset_id) == TRUE

\* dataset_id in state.extractor.datasets
KnownDataset(registered, dataset_id) ==
    \E k \in DOMAIN registered : registered[k].dataset_id = dataset_id

\* GET /api/datasets
get_datasets == datasets

\* The formats export_dataset serves.
ExportFormats == {"tabular", "sequence", "graph"}

\* What a dataset handler answers: the status, the error message if any, and
\* the content's records and adjacency rows.
Answer(status, error, records, adjacency) ==
    [status |-> status, error |-> error, records |-> records, adjacency |-> adjacency]

\* export_dataset: its JSONResponse, the DataFrame's records being the
\* extractor's rows.
export_dataset(dataset_id, format) ==
    IF ~KnownDataset(datasets, dataset_id)
    THEN Answer(404, <<"Dataset not found">>, <<>>, <<>>)
    ELSE CASE format = "tabular" ->
                Answer(200, <<>>, extract_tabular_dataset(all_detections), <<>>)
           [] format = "sequence" ->
                Answer(200, <<>>,
                       extract_sequence_dataset(tracks, DefaultWindowSize, DefaultStride), <<>>)
           [] format = "graph" ->
                Answer(200, <<>>, extract_graph_dataset(tracks).nodes,
                       extract_graph_dataset(tracks).adjacency)
           [] OTHER -> Answer(400, <<"Invalid format">>, <<>>, <<>>)

\* ---------------------------------------------------------- construction
\* SimpleTracker() and RADIXState(), before startup.
InitState ==
    /\ tracks = <<>>
    /\ next_track_id = 1
    /\ current_time = 0
    /\ updated_tracks = {}
    /\ clock = 0
    /\ lifetime = <<>>
    /\ created = <<>>
    /\ missed = {}
    /\ was_coasting = {}
    /\ updates = 0
    /\ simulation_running = FALSE
    /\ all_detections = <<>>
    /\ total_detections = 0
    /\ data_rate_hz = <<0, 1>>
    /\ loop = [pc |-> "unstarted", frame_count |-> 0,
               last_rate_update |-> 0, detections_since_last |-> 0,
               ws |-> 0, next |-> 0, disconnected |-> <<>>]
    /\ arrived = <<>>
    /\ active_websockets = <<>>
    /\ connections = [ws \in Websockets |-> "new"]
    /\ broadcast = [audience |-> <<>>, attempted |-> <<>>, delivered |-> {}, failed |-> {},
                    sent |-> [ws \in Websockets |-> -1]]
    /\ datasets = <<>>
    /\ response = [call |-> "none"]

\* No call of the normalizer is under way.
Init ==
    /\ InitState
    /\ normalizing = [raw |-> <<>>, raw_detections |-> <<>>,
                      result |-> NotCalled, batch_result |-> NotCalled]

\* ---------------------------------------------- the normalizer on its own
\* The raw_data dicts handed to the normalizer: every required field is
\* missing, ill-typed or a number, in range or out of it.
CoreData ==
    [range_m : {Absent, IllTyped, Number(1000), Number(-5)},
     azimuth_deg : {Absent, IllTyped, Number(45), Number(370)},
     elevation_deg : {Absent, IllTyped, Number(10), Number(95)},
     doppler_mps : {Absent, IllTyped, Number(-15)},
     snr_db : {Absent, IllTyped, Number(20)},
     target_id : {Absent, IllTyped, Number(3)},
     rcs_dbsm : {Absent},
     is_false_alarm : {Absent}]

\* A complete, well-typed raw_data dict, as the simulators write them.
GoodData ==
    [range_m |-> Number(1000), azimuth_deg |-> Number(45), elevation_deg |-> Number(10),
     doppler_mps |-> Number(-15), snr_db |-> Number(20), target_id |-> Number(3),
     rcs_dbsm |-> Number(-3), is_false_alarm |-> Absent]

RawData ==
    CoreData \cup {GoodData,
                   [GoodData EXCEPT !.snr_db = Number(10)],
                   [GoodData EXCEPT !.target_id = Absent, !.is_false_alarm = True],
                   [GoodData EXCEPT !.rcs_dbsm = IllTyped],
                   [GoodData EXCEPT !.target_id = Number(0)]}

FormatTypes == RadarType \cup {"UNKNOWN"}

RawDetections ==
    [timestamp : {0}, sensor_id : {"RADAR_A"}, raw_data : RawData, format_type : FormatTypes]

GoodRaw(sensor_id, format_type) ==
    [timestamp |-> 0, sensor_id |-> sensor_id, raw_data |-> GoodData,
     format_type |-> format_type]

\* The batches in which `raw` comes alone, first or between two good records.
RawBatchesWith(raw) ==
    {<<raw>>,
     <<raw, GoodRaw("RADAR_B", "FMCW")>>,
     <<GoodRaw("RADAR_B", "FMCW"), raw, GoodRaw("RADAR_C", "PULSE_DOPPLER")>>}

InitNormalizer ==
    /\ InitState
    /\ \E raw \in RawDetections : \E raw_detections \in RawBatchesWith(raw) :
          normalizing = [raw |-> raw, raw_detections |-> raw_detections,
                         result |-> NotCalled, batch_result |-> NotCalled]

\* normalizer.normalize(raw)
Normalize ==
    /\ normalizing.result.kind = "pending"
    /\ normalizing' = [normalizing EXCEPT !.result = normalize(normalizing.raw)]
    /\ UNCHANGED <<tracker_vars, clock, loop_vars>>

\* normalizer.batch_normalize(raw_detections)
BatchNormalize ==
    /\ normalizing.batch_result.kind = "pending"
    /\ normalizing' =
           [normalizing EXCEPT !.batch_result = batch_normalize(normalizing.raw_detections)]
    /\ UNCHANGED <<tracker_vars, clock, loop_vars>>

NextNormalizer == Normalize \/ BatchNormalize

SpecNormalizer == InitNormalizer /\ [][NextNormalizer]_vars

\* ------------------------------------------------- the tracker on its own
\* A caller hands update a non-empty batch stamped t.
UpdateBatch ==
    /\ updates < MaxUpdates
    /\ \E t \in Times : \E detections \in BatchesAt(t) :
          TrackerUpdate(detections, clock)
    /\ UNCHANGED <<clock, pipeline_vars>>

\* A caller hands update the empty batch: update reads the wall clock.
UpdateEmpty ==
    /\ updates < MaxUpdates
    /\ \E now \in {t \in Times : t >= clock} :
          /\ TrackerUpdate(<<>>, now)
          /\ clock' = now
    /\ UNCHANGED pipeline_vars

Next == UpdateBatch \/ UpdateEmpty

Spec == Init /\ [][Next]_vars

\* ------------------------------------------ the batches of two sensors
\* A detection of a second radar, whose own ENU coordinates happen to lie
\* within max_association_distance of NearDet.
OtherSensorDet ==
    [sensor_id |-> "RADAR_B", position_enu |-> <<60, 0, 0>>, velocity_enu |-> Velocity]

\* simulation_loop hands update the detections of all its simulators in one
\* batch, simulator after simulator.
TwoSensorBatchesAt(t) ==
    {<<Detection(t, NearDet)>>, <<Detection(t, OtherSensorDet)>>,
     <<Detection(t, NearDet), Detection(t, OtherSensorDet)>>}

UpdateTwoSensors ==
    /\ updates < MaxUpdates
    /\ \E t \in Times : \E detections \in TwoSensorBatchesAt(t) :
          TrackerUpdate(detections, clock)
    /\ UNCHANGED <<clock, pipeline_vars>>

NextTwoSensors == UpdateTwoSensors \/ UpdateEmpty

SpecTwoSensors == Init /\ [][NextTwoSensors]_vars

\* ------------------------------------------- one target, followed for long
\* The update calls that carried a detection of the target so far.
LongHits == IF 1 \in DOMAIN lifetime THEN lifetime[1] ELSE 0

\* The k-th call of update is made at second k.  It carries one detection of
\* the target, stamped with that second.
LongHit ==
    /\ updates < MaxLongUpdates
    /\ TrackerUpdate(<<Detection(updates, NearDet)>>, clock)
    /\ UNCHANGED <<clock, pipeline_vars>>

\* The k-th call of update carries nothing: update reads the wall clock.
LongGap ==
    /\ updates < MaxLongUpdates
    /\ updates - LongHits < MaxGaps
    /\ TrackerUpdate(<<>>, updates)
    /\ clock' = updates
    /\ UNCHANGED pipeline_vars

NextLongTrack == LongHit \/ LongGap

SpecLongTrack == Init /\ [][NextLongTrack]_vars

\* ------------------------------------------------------ the orchestrator
\* startup_event: the loop's task is created; it runs later.
Startup ==
    /\ loop.pc = "unstarted"
    /\ simulation_running' = TRUE
    /\ loop' = [loop EXCEPT !.pc = "created"]
    /\ UNCHANGED <<tracker_vars, clock, all_detections, total_detections, data_rate_hz,
                   arrived, socket_vars, normalizing, extractor_vars>>

\* shutdown_event
Shutdown ==
    /\ loop.pc # "unstarted"
    /\ simulation_running
    /\ simulation_running' = FALSE
    /\ UNCHANGED <<tracker_vars, clock, all_detections, total_detections, data_rate_hz,
                   loop, arrived, socket_vars, normalizing, extractor_vars>>

NextFrameStuck(frame_count) == frame_count

\* `frame_count += 1` at the end of an iteration.
NextFrame(frame_count) == frame_count + 1

TickTrackerNever(normalized_detections, now) == UNCHANGED tracker_vars

\* The tracker step of one iteration: update runs only on a non-empty batch.
TickTracker(normalized_detections, now) ==
    IF normalized_detections # <<>>
    THEN TrackerUpdate(normalized_detections, now)
    ELSE UNCHANGED tracker_vars

TrimHistoryOldestKept(list) ==
    IF Len(list) > RingCapacity THEN SubSeq(list, 1, RingCapacity) ELSE list

\* The cap on all_detections that follows the extend.
TrimHistory(list) ==
    IF Len(list) > RingCapacity THEN LastN(list, RingCapacity) ELSE list

\* One iteration of the while loop of simulation_loop at wall-clock time
\* `now`, from the loop's locals `l`, on the batch its simulators and the
\* normalizer yield, up to its first await: the sleep when no subscriber is
\* listed, else the first send_json of the broadcast.
Tick(l, now, normalized_detections) ==
    LET n == Len(normalized_detections)
        since == l.detections_since_last + n
        time_diff == now - l.last_rate_update
    IN  /\ all_detections' = TrimHistory(all_detections \o normalized_detections)
        /\ arrived' = arrived \o normalized_detections
        /\ total_detections' = total_detections + n
        /\ TickTracker(normalized_detections, now)
        /\ data_rate_hz' = IF time_diff >= 1 THEN <<since, time_diff>> ELSE data_rate_hz
        /\ loop' = [pc |-> IF Truthy(active_websockets) THEN "send" ELSE "sleep",
                    frame_count |-> IF Truthy(active_websockets)
                                    THEN l.frame_count ELSE NextFrame(l.frame_count),
                    last_rate_update |-> IF time_diff >= 1 THEN now ELSE l.last_rate_update,
                    detections_since_last |-> IF time_diff >= 1 THEN 0 ELSE since,
                    ws |-> IF Truthy(active_websockets) THEN active_websockets[1] ELSE l.ws,
                    next |-> IF Truthy(active_websockets) THEN 2 ELSE l.next,
                    disconnected |-> <<>>]
        /\ broadcast' = [audience |-> active_websockets,
                         attempted |-> IF Truthy(active_websockets)
                                       THEN <<active_websockets[1]>> ELSE <<>>,
                         delivered |-> {}, failed |-> {},
                         sent |-> IF Truthy(active_websockets)
                                  THEN [broadcast.sent EXCEPT ![active_websockets[1]] =
                                            l.frame_count]
                                  ELSE broadcast.sent]
        /\ clock' = now
        /\ UNCHANGED <<simulation_running, active_websockets, connections, normalizing, extractor_vars>>

TickBody(l, now) ==
    /\ l.frame_count < MaxTicks
    /\ \E normalized_detections \in TickBatchesAt(now) : Tick(l, now, normalized_detections)

\* The loop leaves its while statement.
LoopExit ==
    /\ loop' = [loop EXCEPT !.pc = "done"]
    /\ UNCHANGED <<tracker_vars, clock, simulation_running, all_detections,
                   total_detections, data_rate_hz, arrived, socket_vars, normalizing, extractor_vars>>

\* The task starts: simulation_loop sets its locals and runs to its first sleep.
LoopStart ==
    /\ loop.pc = "created"
    /\ \/ /\ simulation_running
          /\ \E now \in {t \in Times : t >= clock} :
                TickBody([loop EXCEPT !.last_rate_update = now], now)
       \/ /\ ~simulation_running
          /\ LoopExit

\* The sleep ends: the while test, and one more iteration or the exit.
LoopWake ==
    /\ loop.pc = "sleep"
    /\ \/ /\ simulation_running
          /\ \E now \in {t \in Times : t >= clock} : TickBody(loop, now)
       \/ /\ ~simulation_running
          /\ LoopExit

NextPipeline == Startup \/ Shutdown \/ LoopStart \/ LoopWake

SpecPipeline == Init /\ [][NextPipeline]_vars

\* ------------------------------------------- the loop and its subscribers
\* websocket_endpoint, up to its first receive_text: a client connects.
Connect(ws) ==
    /\ loop.pc # "unstarted"
    /\ connections[ws] = "new"
    /\ connections' = [connections EXCEPT ![ws] = "open"]
    /\ active_websockets' = Append(active_websockets, ws)
    /\ UNCHANGED <<tracker_vars, clock, simulation_running, all_detections,
                   total_detections, data_rate_hz, loop, arrived, broadcast, normalizing, extractor_vars>>

\* The peer of an open connection goes away.
ClientClose(ws) ==
    /\ connections[ws] = "open"
    /\ connections' = [connections EXCEPT ![ws] = "closing"]
    /\ UNCHANGED <<tracker_vars, clock, simulation_running, all_detections,
                   total_detections, data_rate_hz, loop, arrived, active_websockets,
                   broadcast, normalizing, extractor_vars>>

\* websocket_endpoint: receive_text raises WebSocketDisconnect and the handler
\* removes its socket (when the list no longer holds it, remove raises and
\* the handler ends all the same).
HandlerDisconnect(ws) ==
    /\ connections[ws] = "closing"
    /\ connections' = [connections EXCEPT ![ws] = "closed"]
    /\ active_websockets' = Remove(active_websockets, ws)
    /\ UNCHANGED <<tracker_vars, clock, simulation_running, all_detections,
                   total_detections, data_rate_hz, loop, arrived, broadcast, normalizing, extractor_vars>>

\* `for ws in disconnected: state.active_websockets.remove(ws)`, from index k
\* on: the list left, and whether a remove raised ValueError.
RECURSIVE RemoveDisconnected(_, _, _)
RemoveDisconnected(list, disconnected, k) ==
    IF k > Len(disconnected) THEN [list |-> list, raised |-> FALSE]
    ELSE IF \A j \in DOMAIN list : list[j] # disconnected[k]
         THEN [list |-> list, raised |-> TRUE]
         ELSE RemoveDisconnected(Remove(list, disconnected[k]), disconnected, k + 1)

\* Whether send_json to ws raises: the peer has gone.
SendFails(ws) == connections[ws] # "open"

\* A send_json of the broadcast completes or raises, and the loop runs on to
\* its next await: the send to the next element of the list as it is now, or,
\* the list exhausted, the removal of the disconnected and the sleep.
SendDone ==
    /\ loop.pc = "send"
    /\ LET failed == SendFails(loop.ws)
           disconnected == IF failed THEN Append(loop.disconnected, loop.ws)
                           ELSE loop.disconnected
           removal == RemoveDisconnected(active_websockets, disconnected, 1)
       IN  /\ broadcast' = [broadcast EXCEPT
                               !.attempted = IF loop.next <= Len(active_websockets)
                                             THEN Append(@, active_websockets[loop.next])
                                             ELSE @,
                               !.sent = IF loop.next <= Len(active_websockets)
                                        THEN [@ EXCEPT ![active_websockets[loop.next]] =
                                                  loop.frame_count]
                                        ELSE @,
                               !.delivered = IF failed THEN @ ELSE @ \cup {loop.ws},
                               !.failed = IF failed THEN @ \cup {loop.ws} ELSE @]
           /\ IF loop.next <= Len(active_websockets)
              THEN /\ loop' = [loop EXCEPT !.ws = active_websockets[loop.next],
                                           !.next = loop.next + 1,
                                           !.disconnected = disconnected]
                   /\ UNCHANGED active_websockets
              ELSE /\ active_websockets' = removal.list
                   /\ loop' = IF removal.raised
                              THEN [loop EXCEPT !.pc = "crashed",
                                                !.disconnected = disconnected]
                              ELSE [loop EXCEPT !.pc = "sleep",
                                                !.frame_count = NextFrame(@),
                                                !.disconnected = disconnected]
    /\ UNCHANGED <<tracker_vars, clock, simulation_running, all_detections,
                   total_detections, data_rate_hz, arrived, connections, normalizing, extractor_vars>>

\* One iteration while clients come and go: the ticks follow one another
\* within the same second and the radars see one target or none.
SubscribedTick(l) ==
    /\ l.frame_count < MaxTicks
    /\ \E normalized_detections \in {<<>>, <<Detection(clock, NearDet)>>} :
          Tick(l, clock, normalized_detections)

SubscribedLoopStart ==
    /\ loop.pc = "created"
    /\ \/ /\ simulation_running
          /\ SubscribedTick([loop EXCEPT !.last_rate_update = clock])
       \/ /\ ~simulation_running
          /\ LoopExit

SubscribedLoopWake ==
    /\ loop.pc = "sleep"
    /\ \/ /\ simulation_running
          /\ SubscribedTick(loop)
       \/ /\ ~simulation_running
          /\ LoopExit

Connects == \E ws \in Websockets : Connect(ws)
ClientCloses == \E ws \in Websockets : ClientClose(ws)
HandlerDisconnects == \E ws \in Websockets : HandlerDisconnect(ws)

NextBroadcast ==
    \/ Startup \/ Shutdown \/ SubscribedLoopStart \/ SubscribedLoopWake \/ SendDone
    \/ Connects \/ ClientCloses \/ HandlerDisconnects

SpecBroadcast == Init /\ [][NextBroadcast]_vars

\* ------------------------------------------------ the loop fed full frames
\* The frame of one tick when the radars see seven targets: seven detections
\* stamped with the tick's time.
FullFrameAt(t) ==
    <<Detection(t, NearDet), Detection(t, FarDet), Detection(t, NearDet),
      Detection(t, FarDet), Detection(t, NearDet), Detection(t, FarDet),
      Detection(t, NearDet)>>

\* One iteration on a full frame.  The host is loaded: asyncio.sleep returns
\* late and the ticks are one second apart, the k-th at second k.
FullTick(l) ==
    /\ l.frame_count < MaxRingTicks
    /\ Tick(l, l.frame_count, FullFrameAt(l.frame_count))

FullLoopStart ==
    /\ loop.pc = "created"
    /\ \/ /\ simulation_running
          /\ FullTick([loop EXCEPT !.last_rate_update = 0])
       \/ /\ ~simulation_running
          /\ LoopExit

FullLoopWake ==
    /\ loop.pc = "sleep"
    /\ \/ /\ simulation_running
          /\ FullTick(loop)
       \/ /\ ~simulation_running
          /\ LoopExit

NextFullFrames == Startup \/ Shutdown \/ FullLoopStart \/ FullLoopWake

SpecFullFrames == Init /\ [][NextFullFrames]_vars

\* ------------------------------------- the extractor on normalized batches
\* extractor.extract_tabular_dataset on what batch_normalize returned.
ExtractTabular ==
    /\ normalizing.batch_result.kind = "returned"
    /\ response.call = "none"
    /\ response' = [call |-> "extract_tabular_dataset",
                    detections |-> normalizing.batch_result.value[1],
                    rows |-> extract_tabular_dataset(normalizing.batch_result.value[1])]
    /\ UNCHANGED <<tracker_vars, clock, simulation_running, all_detections,
                   total_detections, data_rate_hz, loop, arrived, socket_vars,
                   normalizing, datasets>>

NextTabular == BatchNormalize \/ ExtractTabular

SpecTabular == InitNormalizer /\ [][NextTabular]_vars

\* ------------------------------------------ the extractor on tracked data
\* The normalized record of a good raw detection stamped t.
NormalizedAt(t, sensor_id, format_type, data) ==
    normalize([timestamp |-> t, sensor_id |-> sensor_id, raw_data |-> data,
               format_type |-> format_type]).value[1]

\* Detections handed to SimpleTracker.update: two targets of RADAR_A far
\* apart, as the normalizer yields them, and the first target once more in a
\* NormalizedRadarData that carries its position but no velocity_enu.
HereDet(t) == NormalizedAt(t, "RADAR_A", "FMCW", GoodData)
ThereDet(t) ==
    NormalizedAt(t, "RADAR_A", "FMCW", [GoodData EXCEPT !.elevation_deg = Number(95)])
HereDetNoVelocity(t) == [HereDet(t) EXCEPT !.velocity_enu = <<>>]

SequenceBatchesAt(t) ==
    {<<HereDet(t)>>, <<HereDetNoVelocity(t)>>, <<ThereDet(t)>>, <<HereDet(t), ThereDet(t)>>}

SequenceUpdate ==
    /\ updates < MaxSequenceUpdates
    /\ \E detections \in SequenceBatchesAt(clock) : TrackerUpdate(detections, clock)
    /\ UNCHANGED <<clock, pipeline_vars>>

\* extractor.extract_sequence_dataset(tracks, window_size, stride) on the
\* tracker's tracks.
ExtractSequence(window_size, stride) ==
    /\ tracks # <<>>
    /\ response' = [call |-> "extract_sequence_dataset",
                    tracks |-> tracks,
                    window_size |-> window_size,
                    stride |-> stride,
                    rows |-> extract_sequence_dataset(tracks, window_size, stride)]
    /\ UNCHANGED <<tracker_vars, clock, simulation_running, all_detections,
                   total_detections, data_rate_hz, loop, arrived, socket_vars,
                   normalizing, datasets>>

ExtractSequences ==
    \E window_size \in 1 .. MaxWindow : \E stride \in 1 .. MaxStride :
        ExtractSequence(window_size, stride)

\* Targets due east of RADAR_A at elevation 0: their ENU positions lie on the
\* east axis at their range, 1000 m, 999 m or 1 m from one another.
Ranges == {1, 1000, 1001, 2000}

EastDet(t, range_m) ==
    NormalizedAt(t, "RADAR_A", "FMCW",
                 [GoodData EXCEPT !.range_m = Number(range_m), !.azimuth_deg = Number(90),
                                  !.elevation_deg = Number(0)])

\* The frames of one or two of the targets.
GraphBatchesAt(t) ==
    {<<EastDet(t, r)>> : r \in Ranges}
        \cup {<<EastDet(t, r[1]), EastDet(t, r[2])>> :
                 r \in {p \in Ranges \X Ranges : p[1] # p[2]}}

GraphUpdate ==
    /\ updates < MaxGraphUpdates
    /\ \E detections \in GraphBatchesAt(clock) : TrackerUpdate(detections, clock)
    /\ UNCHANGED <<clock, pipeline_vars>>

\* extractor.extract_graph_dataset(tracks) on the tracker's tracks.
ExtractGraph ==
    /\ tracks # <<>>
    /\ response' = [call |-> "extract_graph_dataset",
                    tracks |-> tracks,
                    graph |-> extract_graph_dataset(tracks)]
    /\ UNCHANGED <<tracker_vars, clock, simulation_running, all_detections,
                   total_detections, data_rate_hz, loop, arrived, socket_vars,
                   normalizing, datasets>>

NextGraph == GraphUpdate \/ ExtractGraph

SpecGraph == Init /\ [][NextGraph]_vars

NextSequence == SequenceUpdate \/ ExtractSequences

SpecSequence == Init /\ [][NextSequence]_vars


\* ------------------------------------------------------ association
\* The tracker alone, under batches chosen for how update associates: equally
\* near detections, detections of equal field values, a detection within
\* reach of two tracks, batches whose detections carry different timestamps.
\* `response` keeps the call: the batch and the tracker as it was before.
MaxAssociationUpdates == 3

AssociationTimes == {0, max_coast_time}

\* As far west of NearDet as MidDet lies east of it.
WestDet == [sensor_id |-> "RADAR_A", position_enu |-> <<-60, 0, 0>>, velocity_enu |-> Velocity]

AssociationBatchesAt(t) ==
    {<<Detection(t, NearDet)>>, <<Detection(t, FarDet)>>, <<Detection(t, MidDet)>>,
     <<Detection(t, BareDet)>>,
     <<Detection(t, NearDet), Detection(t, NearDet)>>,
     <<Detection(t, NearDet), Detection(t, FarDet)>>,
     <<Detection(t, WestDet), Detection(t, MidDet)>>,
     <<Detection(t, MidDet), Detection(t, WestDet)>>,
     <<Detection(t, MidDet), Detection(t, NearDet)>>,
     <<Detection(t, BareDet), Detection(t, NearDet)>>,
     <<Detection(t, FarDet), Detection(t + 1, NearDet)>>}

AssociationUpdate ==
    /\ updates < MaxAssociationUpdates
    /\ \E t \in AssociationTimes : \E detections \in AssociationBatchesAt(t) :
          /\ TrackerUpdate(detections, clock)
          /\ response' = [call |-> "update", detections |-> detections,
                          tracks |-> tracks, next_track_id |-> next_track_id]
    /\ UNCHANGED <<clock, simulation_running, all_detections, total_detections,
                   data_rate_hz, loop, arrived, socket_vars, normalizing, datasets>>

NextAssociation == AssociationUpdate

SpecAssociation == Init /\ [][NextAssociation]_vars

\* ------------------------------------------------------------ hints
\* Two trackers fed side by side with batches that differ in nothing but
\* the track_state the normalizer gave the detections.  The first is the
\* tracker of the model; `response` keeps the second: its tracks and its
\* next_track_id.
MaxHintUpdates == 3

\* The track_state a normalizer handler gives a detection: None, TENTATIVE
\* or CONFIRMED.
Hints == {<<>>, <<TENTATIVE>>, <<CONFIRMED>>}

HintedDetection(t, s, hint) ==
    [timestamp |-> t, sensor_id |-> s.sensor_id, position_enu |-> s.position_enu,
     velocity_enu |-> s.velocity_enu, track_state |-> hint]

\* One detection of a target, or two that differ at most in their hints.
HintedBatchesAt(t) ==
    {<<HintedDetection(t, NearDet, h)>> : h \in Hints}
    \cup {<<HintedDetection(t, NearDet, h[1]), HintedDetection(t, NearDet, h[2])>> :
             h \in Hints \X Hints}

\* The batch with every track_state replaced by `hint`.
Rehinted(detections, hint) ==
    [k \in DOMAIN detections |-> [detections[k] EXCEPT !.track_state = hint]]

\* The second tracker: as constructed until its first update.
OtherTracker ==
    IF response.call = "update" THEN response
    ELSE [call |-> "update", tracks |-> <<>>, next_track_id |-> 1]

\* Both trackers are handed the batch, the second with other hints.
HintedUpdate ==
    /\ updates < MaxHintUpdates
    /\ \E detections \in HintedBatchesAt(clock) :
       \E hint \in {<<>>, <<CONFIRMED>>} :
       \E other \in {UpdateFrom(OtherTracker.tracks, OtherTracker.next_track_id,
                                 Rehinted(detections, hint), clock)} :
          /\ TrackerUpdate(detections, clock)
          /\ response' = [call |-> "update", tracks |-> other.kept,
                          next_track_id |-> other.next]
    /\ UNCHANGED <<clock, simulation_running, all_detections, total_detections,
                   data_rate_hz, loop, arrived, socket_vars, normalizing, datasets>>

NextHints == HintedUpdate

SpecHints == Init /\ [][NextHints]_vars


\* ------------------------------------------ the loop and the dataset API
\* One iteration with no subscriber: the radars see one target or two.
DatasetTick(l) ==
    /\ l.frame_count < MaxDatasetTicks
    /\ \E normalized_detections \in {<<HereDet(clock)>>,
                                      <<HereDet(clock), ThereDet(clock)>>} :
          Tick(l, clock, normalized_detections)

DatasetLoopStart ==
    /\ loop.pc = "created"
    /\ \/ /\ simulation_running
          /\ DatasetTick([loop EXCEPT !.last_rate_update = clock])
       \/ /\ ~simulation_running
          /\ LoopExit

DatasetLoopWake ==
    /\ loop.pc = "sleep"
    /\ \/ /\ simulation_running
          /\ DatasetTick(loop)
       \/ /\ ~simulation_running
          /\ LoopExit

\* POST /api/datasets/create
CreateDataset(name, description, format) ==
    /\ loop.pc # "unstarted"
    /\ Len(datasets) < MaxDatasets
    /\ \E dataset \in {MLDataset(datasets, name, description, all_detections,
                                  tracks, format, clock)} :
          /\ datasets' = Put(datasets, dataset.dataset_id, dataset)
          /\ response' = [call |-> "create_dataset", dataset_id |-> dataset.dataset_id,
                          format |-> format,
                          answer |-> Answer(200, <<>>, <<dataset>>, <<>>)]
    /\ UNCHANGED <<tracker_vars, clock, simulation_running, all_detections,
                   total_detections, data_rate_hz, loop, arrived, socket_vars,
                   normalizing>>

\* GET /api/datasets/{dataset_id}/export
ExportDataset(dataset_id, format) ==
    /\ loop.pc # "unstarted"
    /\ response' = [call |-> "export_dataset", dataset_id |-> dataset_id,
                    format |-> format, answer |-> export_dataset(dataset_id, format)]
    /\ UNCHANGED <<tracker_vars, clock, simulation_running, all_detections,
                   total_detections, data_rate_hz, loop, arrived, socket_vars,
                   normalizing, datasets>>

\* The call is made with the handler's default format.
CreateDatasets == CreateDataset("Test Dataset", "Test description", "tabular")

\* The ids asked for: those of the first two datasets, created or not yet,
\* and one that is no dataset id; the formats: those served, and the
\* handler's default.
ExportDatasets ==
    \E dataset_id \in {DatasetId(0), DatasetId(1), "invalid_id"} :
        \E format \in ExportFormats \cup {"csv"} :
            ExportDataset(dataset_id, format)

NextDatasets ==
    \/ Startup \/ Shutdown \/ DatasetLoopStart \/ DatasetLoopWake
    \/ CreateDatasets \/ ExportDatasets

SpecDatasets == Init /\ [][NextDatasets]_vars

\* ======================================================================
\* Properties
\* ======================================================================
Evicted == {created[k] : k \in DOMAIN created} \ TrackIds(tracks)

\* C1: every track returned by get_active_tracks, and so by GET /api/tracks,
\* is CONFIRMED or COASTING; TENTATIVE and LOST tracks are never returned.
C1_ActiveTracksConfirmedOrCoasting ==
    /\ \A i \in DOMAIN get_active_tracks(tracks) :
          get_active_tracks(tracks)[i].track_state \in {CONFIRMED, COASTING}
    /\ \A i \in DOMAIN get_tracks :
          get_tracks[i].track_state \in {CONFIRMED, COASTING}

\* A CONFIRMED or COASTING track is returned while a TENTATIVE one is held back.
C1_Witness ==
    /\ get_tracks # <<>>
    /\ \E i \in DOMAIN tracks : tracks[i].track_state = TENTATIVE

\* C2: once update has returned no track of the tracker is LOST, so neither
\* the tracks update returns, nor get_active_tracks, nor get_track_by_id
\* yields a LOST track.
C2_NoLostTrackHeld ==
    /\ \A i \in DOMAIN tracks : tracks[i].track_state # LOST
    /\ \A i \in DOMAIN get_active_tracks(tracks) :
          get_active_tracks(tracks)[i].track_state # LOST
    /\ \A id \in 1..next_track_id :
          get_track_by_id(tracks, id) # <<>> => get_track_by_id(tracks, id).track_state # LOST

\* An update has marked a track LOST and removed it, another track being kept.
C2_Witness ==
    /\ Evicted # {}
    /\ tracks # <<>>

\* The ids handed out so far are 1, 2, 3, ... in creation order, none twice;
\* the live tracks carry pairwise distinct ids, all handed out before.
TrackIdsInOrder ==
    /\ created = [k \in 1..Len(created) |-> k]
    /\ next_track_id = Len(created) + 1
    /\ Cardinality(TrackIds(tracks)) = Len(tracks)
    /\ TrackIds(tracks) \subseteq 1..(next_track_id - 1)
    /\ \A i, j \in DOMAIN tracks : i < j => tracks[i].track_id < tracks[j].track_id

\* C3: track ids are assigned 1, 2, 3, ... in creation order; next_track_id
\* never decreases, an id is never reused after its track was evicted, and
\* no two live tracks share an id.
C3_TrackIdsMonotone ==
    /\ []TrackIdsInOrder
    /\ [][/\ next_track_id' >= next_track_id
          /\ \A id \in TrackIds(tracks') \ TrackIds(tracks) : id >= next_track_id]_vars

\* A track was evicted and tracks were created after the eviction.
C3_Witness ==
    /\ Len(tracks) >= 2
    /\ \E id \in Evicted : \A i \in DOMAIN tracks : tracks[i].track_id > id

\* C4: a CONFIRMED track has received at least 3 detections over its lifetime.
C4_ConfirmedHasThree ==
    \A i \in DOMAIN tracks :
        tracks[i].track_state = CONFIRMED => lifetime[tracks[i].track_id] >= 3

\* A track is CONFIRMED having received exactly 3 detections.
C4_Witness ==
    \E i \in DOMAIN tracks :
        tracks[i].track_state = CONFIRMED /\ lifetime[tracks[i].track_id] = 3

\* C5: a track that was associated in every update since it was seeded is
\* TENTATIVE after its first and second detection and CONFIRMED after its
\* third and every later one.
C5_ConfirmationAtThree ==
    \A i \in DOMAIN tracks :
        tracks[i].track_id \notin missed =>
            /\ lifetime[tracks[i].track_id] \in {1, 2} => tracks[i].track_state = TENTATIVE
            /\ lifetime[tracks[i].track_id] >= 3 => tracks[i].track_state = CONFIRMED

\* A track associated in every update since its seeding has its 4th detection.
C5_Witness ==
    \E i \in DOMAIN tracks :
        /\ tracks[i].track_id \notin missed
        /\ lifetime[tracks[i].track_id] = 4
        /\ tracks[i].track_state = CONFIRMED

\* C6: in an update, every existing track that gets no detection, whatever
\* its state, becomes COASTING with all its other fields unchanged if
\* current_time - last_updated < max_coast_time, and is otherwise removed
\* in that same update.
C6_CoastOrLost ==
    [][\A i \in DOMAIN tracks :
          tracks[i].track_id \notin updated_tracks' =>
              IF current_time' - tracks[i].last_updated < max_coast_time
              THEN /\ tracks[i].track_id \in TrackIds(tracks')
                   /\ TrackById(tracks', tracks[i].track_id) =
                          [tracks[i] EXCEPT !.track_state = COASTING]
              ELSE tracks[i].track_id \notin TrackIds(tracks')]_vars

\* A track that had its seeding detection only coasts in the update that
\* removes another track exactly max_coast_time after its last detection.
C6_Witness ==
    /\ \E i \in DOMAIN tracks :
          /\ tracks[i].track_state = COASTING
          /\ lifetime[tracks[i].track_id] = 1
          /\ tracks[i].track_id \notin updated_tracks
          /\ tracks[i].track_id \notin was_coasting
    /\ Evicted # {}

\* C7: every iteration of the loop invokes update, on an empty batch too.
C7_UpdateOnEveryTick == updates = loop.frame_count

\* C8: no track outlives an iteration of the loop that runs more than
\* max_coast_time after the track's last detection.
C8_StaleTracksRemoved ==
    loop.pc = "sleep" =>
        \A i \in DOMAIN tracks : clock - tracks[i].last_updated <= max_coast_time

\* C9, as claimed: a COASTING track that is associated again is CONFIRMED
\* after that update.
C9_CoastingReturnsConfirmed ==
    [][\A i \in DOMAIN tracks :
          (tracks[i].track_state = COASTING /\ tracks[i].track_id \in updated_tracks') =>
              TrackById(tracks', tracks[i].track_id).track_state = CONFIRMED]_vars

\* C9, amended: a COASTING track that is associated again is CONFIRMED after
\* that update if it then holds at least 3 detections, and TENTATIVE otherwise.
C9_CoastingReturnsByCount ==
    [][\A i \in DOMAIN tracks :
          (tracks[i].track_state = COASTING /\ tracks[i].track_id \in updated_tracks') =>
              TrackById(tracks', tracks[i].track_id).track_state =
                  IF Len(TrackById(tracks', tracks[i].track_id).detections) >= 3
                  THEN CONFIRMED ELSE TENTATIVE]_vars

\* A track that was COASTING has been associated again and is CONFIRMED.
C9_Witness ==
    \E i \in DOMAIN tracks :
        /\ tracks[i].track_id \in was_coasting \cap updated_tracks
        /\ tracks[i].track_state = CONFIRMED

\* C10: first_seen <= last_updated for every track.
C10_FirstSeenBeforeLastUpdated ==
    \A i \in DOMAIN tracks : tracks[i].first_seen <= tracks[i].last_updated

\* C11: every track holds between 1 and MaxTrackDetections detections; a
\* track that takes one more detection than it can hold drops its oldest
\* one, and keeps the newest MaxTrackDetections in the order they arrived.
C11_DetectionsBounded ==
    \A i \in DOMAIN tracks :
        /\ 1 <= Len(tracks[i].detections)
        /\ Len(tracks[i].detections) <= MaxTrackDetections

C11_DetectionsShift ==
    updates' = updates + 1 =>
    \A i \in DOMAIN tracks' :
        LET new == tracks'[i].detections
            id == tracks'[i].track_id
        IN  IF id \in TrackIds(tracks)
            THEN LET old == TrackById(tracks, id).detections IN
                 IF id \in updated_tracks'
                 THEN /\ Len(new) = (IF Len(old) < MaxTrackDetections
                                     THEN Len(old) + 1 ELSE MaxTrackDetections)
                      /\ new[Len(new)].timestamp = current_time'
                      /\ \A k \in 1 .. Len(new) - 1 :
                             new[k] = old[Len(old) - (Len(new) - 1) + k]
                 ELSE new = old
            ELSE Len(new) = 1

C11_NewestDetectionsKept == []C11_DetectionsBounded /\ [][C11_DetectionsShift]_vars

C11_Witness ==
    \E i \in DOMAIN tracks :
        /\ lifetime[tracks[i].track_id] > MaxTrackDetections
        /\ Len(tracks[i].detections) = MaxTrackDetections
        /\ tracks[i].detections[1].timestamp > tracks[i].first_seen
        /\ tracks[i].track_id \in missed

\* C12: no cross-sensor association is performed: every detection in a
\* track's detection list has the same sensor_id as the track.
C12_NoCrossSensorAssociation ==
    \A i \in DOMAIN tracks :
        \A k \in DOMAIN tracks[i].detections :
            tracks[i].detections[k].sensor_id = tracks[i].sensor_id

\* C13: wherever a query handler can run, the detection history holds at
\* most RingCapacity detections, and they are the most recently appended
\* ones in the order they arrived.
C13_HistoryIsNewest ==
    /\ Len(all_detections) <= RingCapacity
    /\ Len(all_detections) =
           (IF Len(arrived) < RingCapacity THEN Len(arrived) ELSE RingCapacity)
    /\ \A k \in DOMAIN all_detections :
           all_detections[k] = arrived[Len(arrived) - Len(all_detections) + k]

C13_Witness ==
    /\ Len(arrived) > RingCapacity + Len(FullFrameAt(0))
    /\ Len(all_detections) = RingCapacity

\* C14: recent_detections(limit) returns the last min(limit, history length)
\* detections of the history, oldest first, and so never more than limit of
\* them, for every limit from 0 on.
C14_RecentDetectionsLimited ==
    \A limit \in 0 .. MaxLimit :
        LET got == get_recent_detections(limit)
            n == Len(all_detections)
        IN  /\ Len(got) <= limit
            /\ Len(got) = (IF limit < n THEN limit ELSE n)
            /\ \A k \in DOMAIN got :
                   /\ got[k].timestamp = all_detections[n - Len(got) + k].timestamp
                   /\ got[k].sensor_id = all_detections[n - Len(got) + k].sensor_id
                   /\ got[k].position_enu = all_detections[n - Len(got) + k].position_enu

\* C15: normalize never raises: whatever the format_type and the raw_data,
\* fields missing or ill-typed included, it returns a record or None.
C15_NormalizeNeverRaises ==
    normalizing.result.kind \in {"pending", "returned"}

\* The records normalize returns for the members of raw_detections, in order.
Survivors(raw_detections) ==
    LET kept == SelectSeq(raw_detections,
                          LAMBDA raw : /\ normalize(raw).kind = "returned"
                                       /\ normalize(raw).value # <<>>)
    IN  [k \in DOMAIN kept |-> normalize(kept[k]).value[1]]

\* C16: batch_normalize drops exactly the records for which normalize yields
\* None and keeps all the others in input order; a failing record never
\* keeps the later records of the batch from being processed.
C16_BatchDropsOnlyNone ==
    normalizing.batch_result.kind # "pending" =>
        /\ normalizing.batch_result.kind = "returned"
        /\ normalizing.batch_result.value[1] = Survivors(normalizing.raw_detections)

\* Every value present in a raw_data dict has the type its field expects.
WellTyped(data) == \A key \in DOMAIN data : data[key].kind # "string"

C18_AnglesAndRangeInBounds ==
    (normalizing.result.kind = "returned" /\ normalizing.result.value # <<>>) =>
        LET record == normalizing.result.value[1] IN
        /\ record.range_m >= 0
        /\ 0 <= record.azimuth_deg /\ record.azimuth_deg < 360
        /\ \A k \in DOMAIN record.elevation_deg :
               -90 <= record.elevation_deg[k] /\ record.elevation_deg[k] <= 90

\* C19: in every normalized record position_enu is present if and only if
\* the elevation was known, whichever handler made the record.
C19_PositionIffElevation ==
    (normalizing.result.kind = "returned" /\ normalizing.result.value # <<>>) =>
        (normalizing.result.value[1].position_enu # <<>>
            <=> normalizing.raw.raw_data.elevation_deg.kind = "number")

ListedSockets == {active_websockets[k] : k \in DOMAIN active_websockets}

\* The last tick had subscribers and its broadcast is over.
BroadcastOver == loop.pc \in {"sleep", "crashed", "done"} /\ Truthy(broadcast.audience)

\* C20: after a tick's broadcast every subscriber whose send failed has been
\* removed from the list, every subscriber whose send succeeded (and who has
\* not gone since) is still in it, and the frame was sent to every subscriber
\* that was listed when the broadcast began (and has not gone), whatever
\* became of the sends to the others.
C20_BroadcastDropsFailedOnly ==
    BroadcastOver =>
        /\ \A ws \in broadcast.failed : ws \notin ListedSockets
        /\ \A ws \in broadcast.delivered :
               connections[ws] = "open" => ws \in ListedSockets
        /\ \A k \in DOMAIN broadcast.audience :
               connections[broadcast.audience[k]] = "open"
                   => broadcast.audience[k] \in broadcast.delivered

\* How many sends of the last broadcast were started to ws.
Attempts(ws) == Cardinality({k \in DOMAIN broadcast.attempted : broadcast.attempted[k] = ws})

\* C21: a connect or disconnect handled while a broadcast is suspended in a
\* send does not disturb it: once the broadcast is over, every subscriber
\* that was listed when it began (and has not gone) was sent the frame
\* exactly once, and none was skipped.
C21_NoSubscriberSkipped ==
    BroadcastOver =>
        \A k \in DOMAIN broadcast.audience :
            connections[broadcast.audience[k]] = "open"
                => Attempts(broadcast.audience[k]) = 1

\* What the query handlers read: get_status, get_tracks, get_recent_detections,
\* create_dataset and export_dataset.
ReaderView == <<all_detections, total_detections, data_rate_hz, tracks, next_track_id>>

\* C22: query handlers never see a partly executed tick.  Whatever they read
\* changes only in the one step that runs a tick from its start to its first
\* await, and that step makes all of the tick's changes together: the ring
\* append, the counter and the tracker update; the steps of a broadcast
\* suspended in a send change nothing a handler reads.
C22_TickChangesTogether ==
    (ReaderView' # ReaderView \/ arrived' # arrived) =>
        LET batch == SubSeq(arrived', Len(arrived) + 1, Len(arrived')) IN
        /\ loop.pc \in {"created", "sleep"}
        /\ loop'.pc \in {"send", "sleep"}
        /\ SubSeq(arrived', 1, Len(arrived)) = arrived
        /\ total_detections' = total_detections + Len(batch)
        /\ Len(all_detections') <= RingCapacity
        /\ \A k \in DOMAIN all_detections' :
               all_detections'[k] = arrived'[Len(arrived') - Len(all_detections') + k]
        /\ IF batch # <<>>
           THEN /\ updates' = updates + 1
                /\ current_time' = batch[1].timestamp
           ELSE UNCHANGED <<tracks, next_track_id, updates>>

C22_ReadersSeeWholeTicks == [][C22_TickChangesTogether]_vars

C22_Witness ==
    /\ loop.pc = "send"
    /\ broadcast.delivered # {}
    /\ tracks # <<>>
    /\ total_detections > Len(tracks)

\* A send_json starts in this step: the first of a broadcast, or the next one
\* of the broadcast under way.
SendStarts == loop'.pc = "send" /\ (loop.pc # "send" \/ loop'.next # loop.next)

\* C23: each subscriber is sent the frames in tick order.  When a send of
\* tick k starts, the subscriber it goes to has been sent only frames of
\* earlier ticks, no subscriber has been sent a frame of a later tick, and
\* every send started before it has completed or failed.
C23_SendInOrder ==
    SendStarts =>
        /\ broadcast.sent[loop'.ws] < loop'.frame_count
        /\ \A ws \in Websockets : broadcast.sent[ws] <= loop'.frame_count
        /\ broadcast'.sent = [broadcast.sent EXCEPT ![loop'.ws] = loop'.frame_count]
        /\ IF loop.pc = "send"
           THEN /\ loop.ws \in broadcast'.delivered \cup broadcast'.failed
                /\ loop'.frame_count = loop.frame_count
           ELSE \A k \in DOMAIN broadcast.attempted :
                    broadcast.attempted[k] \in broadcast.delivered \cup broadcast.failed

C23_FramesInTickOrder == [][C23_SendInOrder]_vars

C23_Witness ==
    /\ loop.pc = "send"
    /\ loop.frame_count = 2
    /\ broadcast.sent[1] = 2
    /\ broadcast.sent[2] = 1
    /\ connections[2] = "open"

\* shutdown_event has run.
ShutDown == loop.pc # "unstarted" /\ ~simulation_running

\* A step of the loop's task.
LoopStep == SubscribedLoopStart \/ SubscribedLoopWake \/ SendDone

\* After the shutdown signal: a tick suspended in a send goes on to its
\* remaining sends and to the sleep that ends it, and no tick starts.
C24_AfterShutdown ==
    ShutDown =>
        /\ loop.pc = "send" => loop'.pc \in {"send", "sleep"}
        /\ loop.pc \in {"created", "sleep"} => loop'.pc \in {loop.pc, "done"}
        /\ loop.pc = "done" => loop'.pc = "done"
        /\ arrived' = arrived
        /\ total_detections' = total_detections
        /\ ShutDown'

\* C24: after the shutdown signal the tick in progress runs to completion, no
\* further tick starts, and the loop terminates: it has left its while
\* statement, or its task has a step to take that leads there.
C24_ShutdownStopsLoop ==
    /\ [](ShutDown => (loop.pc = "done" \/ ENABLED LoopStep))
    /\ [][C24_AfterShutdown]_vars

\* C25: no detection is retained past shutdown.  Once the loop has stopped
\* after the shutdown signal, the detection history is empty.
C25_NothingRetainedPastShutdown ==
    (ShutDown /\ loop.pc = "done") => all_detections = <<>>

\* C30: the tabular extractor emits one row per input detection, in input
\* order, whose target_id is the detection's target_id whenever it has one
\* (0 included) and -1 only when it has none.
C30_TabularKeepsTargetId ==
    response.call = "extract_tabular_dataset" =>
        /\ Len(response.rows) = Len(response.detections)
        /\ \A k \in DOMAIN response.detections :
               /\ response.rows[k].sensor_id = response.detections[k].sensor_id
               /\ response.rows[k].range_m = response.detections[k].range_m
               /\ response.rows[k].target_id =
                      IF response.detections[k].target_id # <<>>
                      THEN response.detections[k].target_id[1]
                      ELSE -1

\* The rows of the last sequence extraction that a track produced.
RowsOf(track) ==
    SelectSeq(response.rows, LAMBDA row : row.track_id = track.track_id)

\* C28: for window_size w >= 1 and stride s >= 1 a track with n detections
\* yields floor((n - w) / s) + 1 windows of w rows each when n >= w and no
\* row when n < w, and every row carries the track's track_id and track_state.
C28_WindowsOfWRows ==
    response.call = "extract_sequence_dataset" =>
        /\ \A t \in DOMAIN response.tracks :
               LET track == response.tracks[t]
                   n == Len(track.detections)
                   w == response.window_size
               IN  /\ Len(RowsOf(track)) =
                          IF n >= w THEN (((n - w) \div response.stride) + 1) * w ELSE 0
                   /\ \A k \in DOMAIN RowsOf(track) :
                          RowsOf(track)[k].track_state = track.track_state
        /\ \A k \in DOMAIN response.rows :
               response.rows[k].track_id \in TrackIds(response.tracks)

\* The position of the i-th track handed to the graph extractor.
PositionOf(i) == SubSeq(response.tracks[i].state_vector, 1, 3)

\* C29: the adjacency is symmetric with a zero diagonal; w(i,j) > 0 exactly
\* when i # j and the two tracks lie strictly less than the proximity
\* threshold apart, and then w(i,j) = 1 / (distance + 1); edge_index lists
\* exactly the pairs (i,j) with w(i,j) > 0, each once.
C29_GraphAdjacency ==
    response.call = "extract_graph_dataset" =>
        LET w == response.graph.adjacency
            edge_index == response.graph.edge_index
            edges == {p \in (DOMAIN w) \X (DOMAIN w) : Positive(w[p[1]][p[2]])}
        IN  /\ DOMAIN w = DOMAIN response.tracks
            /\ \A i \in DOMAIN w : \A j \in DOMAIN w :
                   /\ DOMAIN w[i] = DOMAIN response.tracks
                   /\ w[i][j] = w[j][i]
                   /\ i = j => w[i][j][1] = 0
                   /\ Positive(w[i][j]) <=>
                          (i # j /\ Dist2(PositionOf(i), PositionOf(j))
                                       < ProximityThreshold * ProximityThreshold)
                   /\ Positive(w[i][j]) =>
                          /\ w[i][j][1] = 1
                          /\ (w[i][j][2] - 1) * (w[i][j][2] - 1)
                                 = Dist2(PositionOf(i), PositionOf(j))
            /\ {<<edge_index[k][1] + 1, edge_index[k][2] + 1>> : k \in DOMAIN edge_index}
                   = edges
            /\ Len(edge_index) = Cardinality(edges)

C29_Witness ==
    /\ response.call = "extract_graph_dataset"
    /\ Len(response.tracks) >= 3
    /\ \E i, j \in DOMAIN response.tracks :
           Dist2(PositionOf(i), PositionOf(j)) = ProximityThreshold * ProximityThreshold
    /\ \E i, j \in DOMAIN response.tracks :
           /\ Dist2(PositionOf(i), PositionOf(j))
                  = (ProximityThreshold - 1) * (ProximityThreshold - 1)
           /\ response.graph.adjacency[i][j] = <<1, ProximityThreshold>>

\* Whether the id of the answered export was registered before the call.
ExportOfKnown ==
    response'.dataset_id \in {datasets[k].dataset_id : k \in DOMAIN datasets}

\* C26: export_dataset answers not-found for an id never created, whatever
\* the format, and invalid-format for an existing id with a format other
\* than tabular, sequence and graph; neither answer changes the registry,
\* the detection history or the tracks.
C26_ExportAnswer ==
    (response' # response /\ response'.call = "export_dataset") =>
        /\ ~ExportOfKnown =>
               /\ response'.answer.status = 404
               /\ response'.answer.error = <<"Dataset not found">>
        /\ (ExportOfKnown /\ response'.format \notin {"tabular", "sequence", "graph"}) =>
               /\ response'.answer.status = 400
               /\ response'.answer.error = <<"Invalid format">>
        /\ response'.answer.status \in {400, 404} =>
               UNCHANGED <<datasets, all_detections, tracks, next_track_id>>

C26_ExportErrors == [][C26_ExportAnswer]_vars

C26_Witness ==
    /\ response.call = "export_dataset"
    /\ response.answer.status = 404
    /\ response.format = "tabular"
    /\ response.dataset_id = DatasetId(1)
    /\ Len(datasets) = 1
    /\ all_detections # <<>>

\* The ids of the registry are pairwise distinct.
DistinctIds ==
    \A j, k \in DOMAIN datasets : datasets[j].dataset_id = datasets[k].dataset_id => j = k

\* A create_dataset call registers one new descriptor under "dataset_<n>", n
\* the number registered before, and nothing else changes the registry.
C27_CreateAppends ==
    (datasets' # datasets \/ (response' # response /\ response'.call = "create_dataset")) =>
        /\ response'.call = "create_dataset"
        /\ Len(datasets') = Len(datasets) + 1
        /\ SubSeq(datasets', 1, Len(datasets)) = datasets
        /\ datasets'[Len(datasets')].dataset_id = "dataset_" \o Str(Len(datasets))
        /\ response'.dataset_id = datasets'[Len(datasets')].dataset_id

\* C27: each create_dataset call registers exactly one new descriptor under
\* "dataset_<n>", n being the number registered before; ids are pairwise
\* distinct, registered descriptors are never modified or removed, and
\* get_datasets returns every descriptor created so far.
C27_RegistryOnlyGrows ==
    /\ [](DistinctIds /\ get_datasets = datasets)
    /\ [][C27_CreateAppends]_vars

C27_Witness ==
    /\ Len(datasets) = 2
    /\ datasets[1].dataset_id = "dataset_0"
    /\ datasets[2].dataset_id = "dataset_1"
    /\ datasets[1].num_samples < datasets[2].num_samples
    /\ response.call = "export_dataset"

\* C31: the CONFIRMED threshold follows the number of detections a track has
\* received, not the capped list: a track associated in the last update is
\* CONFIRMED exactly when it has received at least three detections, and a
\* track that has received more than 50 is CONFIRMED after every later
\* association although its list was trimmed to 50.
C31_ConfirmedByLifetimeCount ==
    \A i \in DOMAIN tracks :
        tracks[i].track_id \in updated_tracks =>
            /\ (tracks[i].track_state = CONFIRMED) <=> (lifetime[tracks[i].track_id] >= ConfirmThreshold)
            /\ lifetime[tracks[i].track_id] > MaxTrackDetections =>
                   /\ tracks[i].track_state = CONFIRMED
                   /\ Len(tracks[i].detections) = MaxTrackDetections

\* A track associated for the 52nd time, its list trimmed to 50.
C31_Witness ==
    /\ tracks # <<>>
    /\ tracks[1].track_id \in updated_tracks
    /\ lifetime[tracks[1].track_id] = MaxTrackDetections + 2
    /\ Len(tracks[1].detections) = MaxTrackDetections
    /\ tracks[1].track_state = CONFIRMED

\* The detection the last update gave the track `id`.
TakenBy(id) ==
    LET track == TrackById(tracks, id) IN track.detections[Len(track.detections)]

\* The detections of the last call that no track before the i-th had taken.
RECURSIVE Unassigned(_)
Unassigned(i) ==
    IF i = 1 THEN response.detections
    ELSE IF response.tracks[i - 1].track_id \in updated_tracks
         THEN Remove(Unassigned(i - 1), TakenBy(response.tracks[i - 1].track_id))
         ELSE Unassigned(i - 1)

Distance2(track, detection) ==
    Dist2(detection.position_enu, SubSeq(track.state_vector, 1, 3))

\* C32: each existing track is given the detection nearest to it among the
\* still unassigned detections that carry position_enu, if that one lies
\* strictly nearer than max_association_distance; of equally near detections
\* the first in the batch is taken, and a track with no detection strictly
\* within max_association_distance is given none.
C32_NearestUnassignedTaken ==
    response.call = "update" =>
        \A i \in DOMAIN response.tracks :
            LET track == response.tracks[i]
                rest == Unassigned(i)
                located == {j \in DOMAIN rest : rest[j].position_enu # <<>>}
                reach == max_association_distance * max_association_distance
            IN  IF track.track_id \in updated_tracks
                THEN \E k \in located :
                        /\ rest[k] = TakenBy(track.track_id)
                        /\ Distance2(track, rest[k]) < reach
                        /\ \A j \in located :
                               /\ Distance2(track, rest[j]) >= Distance2(track, rest[k])
                               /\ j < k => Distance2(track, rest[j]) > Distance2(track, rest[k])
                ELSE \A j \in located : Distance2(track, rest[j]) >= reach

\* A track at NearDet was offered WestDet and MidDet, equally near, WestDet
\* first, and took WestDet.
C32_Witness ==
    /\ response.call = "update"
    /\ response.tracks # <<>>
    /\ response.tracks[1].state_vector[1] = 0
    /\ Len(response.detections) = 2
    /\ response.detections[1].position_enu = WestDet.position_enu
    /\ response.detections[2].position_enu = MidDet.position_enu
    /\ response.tracks[1].track_id \in updated_tracks
    /\ TakenBy(response.tracks[1].track_id) = response.detections[1]

\* The tracks that did not exist before the last call.
SeededTracks == {i \in DOMAIN tracks : tracks[i].track_id >= response.next_track_id}

\* How many tracks the last update gave a detection equal to d.
Uses(d) ==
    Cardinality({i \in DOMAIN tracks :
                    /\ tracks[i].track_id \in updated_tracks
                    /\ TakenBy(tracks[i].track_id) = d})
    + Cardinality({i \in SeededTracks : tracks[i].detections[1] = d})

\* How many detections of the last batch equal d.
Copies(d) == Cardinality({k \in DOMAIN response.detections : response.detections[k] = d})

\* C33: within one update each track is given at most one detection and
\* each detection of the batch is used by at most one track; every batch
\* detection with both position_enu and velocity_enu ends the update in
\* exactly one track, also when the batch holds detections of equal values.
C33_OneDetectionOneTrack ==
    response.call = "update" =>
        /\ \A i \in DOMAIN response.tracks :
               LET id == response.tracks[i].track_id
                   before == Len(response.tracks[i].detections)
               IN  /\ id \in updated_tracks =>
                          Len(TrackById(tracks, id).detections) = before + 1
                   /\ (id \notin updated_tracks /\ id \in TrackIds(tracks)) =>
                          TrackById(tracks, id).detections = response.tracks[i].detections
        /\ \A i \in SeededTracks : Len(tracks[i].detections) = 1
        /\ \A k \in DOMAIN response.detections :
               LET d == response.detections[k]
               IN  /\ Uses(d) =< Copies(d)
                   /\ (d.position_enu # <<>> /\ d.velocity_enu # <<>>) => Uses(d) = Copies(d)

\* Two detections of equal values met one track: one was associated with
\* it and the other seeded a track.
C33_Witness ==
    /\ response.call = "update"
    /\ Len(response.detections) = 2
    /\ response.detections[1] = response.detections[2]
    /\ Len(response.tracks) = 1
    /\ response.tracks[1].track_id \in updated_tracks
    /\ TakenBy(response.tracks[1].track_id) = response.detections[1]
    /\ Cardinality(SeededTracks) = 1
    /\ \A i \in SeededTracks : tracks[i].detections = <<response.detections[2]>>

\* The tracks are held in ascending track_id order.
AscendingIds ==
    \A i, j \in DOMAIN tracks : i < j => tracks[i].track_id < tracks[j].track_id

\* In a call of update, a detection given to a track lay within reach of no
\* earlier-numbered track that went without, nor of one that took a
\* detection farther from it: the earlier-numbered track chose first.
LowerIdChoosesFirst ==
    updates' = updates + 1 =>
        \A i \in DOMAIN tracks' :
            tracks'[i].track_id \in updated_tracks' =>
                LET d == tracks'[i].detections[Len(tracks'[i].detections)]
                    reach == max_association_distance * max_association_distance
                IN  \A l \in DOMAIN tracks :
                        (/\ tracks[l].track_id < tracks'[i].track_id
                         /\ d.position_enu # <<>>
                         /\ Distance2(tracks[l], d) < reach) =>
                            /\ tracks[l].track_id \in updated_tracks'
                            /\ \E m \in DOMAIN tracks' :
                                   /\ tracks'[m].track_id = tracks[l].track_id
                                   /\ Distance2(tracks[l],
                                          tracks'[m].detections[Len(tracks'[m].detections)])
                                        =< Distance2(tracks[l], d)

Leftover == Unassigned(Len(response.tracks) + 1)

\* C35: once the existing tracks are processed, every remaining detection
\* with both position_enu and velocity_enu seeds exactly one new TENTATIVE
\* track, in batch order, and is not matched against the tracks seeded in
\* the same update; a detection without position_enu is never associated
\* and never seeds a track, and one without velocity_enu never seeds one.
C35_LeftoversSeedInBatchOrder ==
    response.call = "update" =>
        LET seeding == SelectSeq(Leftover,
                           LAMBDA d : d.position_enu # <<>> /\ d.velocity_enu # <<>>)
            kept == Len(tracks) - Len(seeding)
        IN  /\ kept >= 0
            /\ next_track_id = response.next_track_id + Len(seeding)
            /\ \A k \in DOMAIN seeding :
                   /\ tracks[kept + k].track_id = response.next_track_id + k - 1
                   /\ tracks[kept + k].track_state = TENTATIVE
                   /\ tracks[kept + k].detections = <<seeding[k]>>
                   /\ tracks[kept + k].state_vector =
                          seeding[k].position_enu \o seeding[k].velocity_enu
            /\ \A i \in 1..kept : tracks[i].track_id < response.next_track_id
            /\ \A i \in DOMAIN tracks :
                   tracks[i].track_id \in updated_tracks =>
                       TakenBy(tracks[i].track_id).position_enu # <<>>

\* An existing track lay out of reach of a batch of two detections within
\* reach of each other: each seeded a track of its own.
C35_Witness ==
    /\ response.call = "update"
    /\ response.tracks # <<>>
    /\ updated_tracks = {}
    /\ Len(response.detections) = 2
    /\ Distance2([state_vector |-> response.detections[1].position_enu],
                 response.detections[2])
           < max_association_distance * max_association_distance
    /\ next_track_id = response.next_track_id + 2
    /\ tracks[Len(tracks) - 1].detections = <<response.detections[1]>>
    /\ tracks[Len(tracks)].detections = <<response.detections[2]>>

\* C36: after every association the track's state_vector is the associated
\* detection's position_enu followed by its velocity_enu, nothing of the
\* previous state_vector surviving, for every detection that can be
\* associated.
C36_StateVectorReplaced ==
    \A i \in DOMAIN tracks :
        tracks[i].track_id \in updated_tracks =>
            tracks[i].state_vector =
                TakenBy(tracks[i].track_id).position_enu
                    \o TakenBy(tracks[i].track_id).velocity_enu

\* C37: after an association the track's last_updated is the timestamp of
\* the detection that was associated with it, also when the detections of
\* one batch carry different timestamps.
C37_LastUpdatedIsDetectionTime ==
    \A i \in DOMAIN tracks :
        tracks[i].track_id \in updated_tracks =>
            tracks[i].last_updated = TakenBy(tracks[i].track_id).timestamp

\* A track with the track_state of its detections left out.
WithoutHints(track) == [track EXCEPT !.detections = Rehinted(@, <<>>)]

\* C38: the track_state a detection carries is advisory only: two runs of
\* the tracker on batch sequences that differ only in the detections'
\* track_state hold the same tracks with the same ids, states and state
\* vectors after every update.
C38_HintsDoNotSteerTracker ==
    response.call = "update" =>
        /\ next_track_id = response.next_track_id
        /\ Len(tracks) = Len(response.tracks)
        /\ \A i \in DOMAIN tracks : WithoutHints(tracks[i]) = WithoutHints(response.tracks[i])

\* The two runs were handed different hints, on a detection that seeded a
\* track and on one that confirmed a track.
C38_Witness ==
    /\ response.call = "update"
    /\ \E i \in DOMAIN tracks :
          /\ tracks[i].track_state = CONFIRMED
          /\ tracks[i].detections[1].track_state # response.tracks[i].detections[1].track_state
          /\ tracks[i].detections[Len(tracks[i].detections)].track_state
                 # response.tracks[i].detections[Len(tracks[i].detections)].track_state

\* C39: a failing send or a disconnect never stops the pipeline.  Under every
\* interleaving of the loop with connects, disconnects and failing sends,
\* the loop marks a subscriber for removal at most once in a broadcast and
\* its task is never ended by the removal: it goes on to its sleep and to
\* the next tick.
C39_SubscribersNeverStopLoop ==
    /\ \A j, k \in DOMAIN loop.disconnected :
           loop.disconnected[j] = loop.disconnected[k] => j = k
    /\ loop.pc # "crashed"

====
